---- MODULE Spec2Model ----
(***************************************************************************)
(* Model of pgmoneta's archive pipeline and tar extraction                 *)
(* (src/libpgmoneta/archive.c) and of the relation path resolver           *)
(* (src/libpgmoneta/walfile/relpath.c).                                    *)
(***************************************************************************)
EXTENDS Integers, Sequences, FiniteSets, TLC

VARIABLES
    pc,          \* position of pgmoneta_archive in its body
    result,      \* local `result`
    workflow,    \* local `workflow`: the step chain, <<>> is NULL
    current,     \* local `current`: index into workflow, Len+1 is NULL
    i_nodes,     \* input Bus (names of the entries, in order)
    o_nodes,     \* output Bus (entries appended by the step callbacks)
    calls,       \* history of the step callbacks invoked so far
    channel,     \* values written to client_fd
    closed,      \* client_fd has been closed by pgmoneta_disconnect
    released,    \* how often each owned object was handed to its release call
    exit_code,   \* -1 while running, then the argument of exit()
    restored,    \* outcome of pgmoneta_restore_backup: "none", "ok", "failed"
    server_config, \* the global server_config: is it set, and its version
    errno,       \* errno as left by the resolver
    args,        \* the last resolver call and its arguments, fn = "none" before
    path,        \* value returned by the last resolver call
    tar_pc,      \* position of pgmoneta_extract_tar_file in its body
    tar_dest,    \* its argument `destination`, as a sequence of characters
    tar_entry,   \* pathname of `entry`, <<>> before the first header
    tar_log,     \* the libarchive calls made so far and what they returned
    tar_extracted, \* pathnames of the entries extracted so far
    tar_ret      \* -1 while running, then the value returned

archive_vars == <<pc, result, workflow, current, i_nodes, o_nodes, calls,
                  channel, closed, released, exit_code, restored>>
relpath_vars == <<server_config, errno, args, path>>
tar_vars == <<tar_pc, tar_dest, tar_entry, tar_log, tar_extracted, tar_ret>>
vars == <<pc, result, workflow, current, i_nodes, o_nodes, calls,
          channel, closed, released, exit_code, restored,
          server_config, errno, args, path,
          tar_pc, tar_dest, tar_entry, tar_log, tar_extracted, tar_ret>>

\* ---------------------------------------------------------------- bounds
MaxSteps == 3
MaxForkTried == 4
MaxVersionTried == 18
MaxEntries == 2

\* ---------------------------------------------------------------- archive

NULL == "NULL"

Phases == {"setup", "execute", "teardown"}

\* int result = 1; every pointer local is NULL
ArchiveInit ==
    /\ pc = "restore"
    /\ result = 1
    /\ workflow = <<>>
    /\ current = 1
    /\ i_nodes = <<>>
    /\ o_nodes = <<>>
    /\ calls = <<>>
    /\ channel = <<>>
    /\ closed = FALSE
    /\ released = [workflow |-> 0, i_nodes |-> 0, o_nodes |-> 0]
    /\ exit_code = -1
    /\ restored = "none"

NoConfig == [present |-> FALSE, version |-> 0]
NoCall == [fn |-> "none"]

RelpathIdle ==
    /\ server_config = NoConfig
    /\ errno = 0
    /\ args = NoCall
    /\ path = NULL

\* pgmoneta_extract_tar_file has not been called
TarIdle ==
    /\ tar_pc = "idle"
    /\ tar_dest = <<>>
    /\ tar_entry = <<>>
    /\ tar_log = <<>>
    /\ tar_extracted = <<>>
    /\ tar_ret = -1

Init == ArchiveInit /\ RelpathIdle /\ TarIdle

\* result = 0 assigned before the outcome of the restore is tested
RestoreBackupResultEarly ==
    /\ pc = "restore"
    /\ \E ret \in {0, 1} :
          IF ret = 0
          THEN /\ restored' = "ok"
               /\ pc' = "node_directory"
          ELSE /\ restored' = "failed"
               /\ pc' = "write"
    /\ result' = 0
    /\ UNCHANGED <<workflow, current, i_nodes, o_nodes, calls, channel,
                   closed, released, exit_code>>
    /\ UNCHANGED <<relpath_vars, tar_vars>>

\* a failed restore leaves through the error label
RestoreBackupFailureToError ==
    /\ pc = "restore"
    /\ \E ret \in {0, 1} :
          IF ret = 0
          THEN /\ restored' = "ok"
               /\ result' = 0
               /\ pc' = "node_directory"
          ELSE /\ restored' = "failed"
               /\ result' = result
               /\ pc' = "error"
    /\ UNCHANGED <<workflow, current, i_nodes, o_nodes, calls, channel,
                   closed, released, exit_code>>
    /\ UNCHANGED <<relpath_vars, tar_vars>>

\* if (!pgmoneta_restore_backup(...)) { result = 0; ... }
RestoreBackup ==
    /\ pc = "restore"
    /\ \E ret \in {0, 1} :
          IF ret = 0
          THEN /\ restored' = "ok"
               /\ result' = 0
               /\ pc' = "node_directory"
          ELSE /\ restored' = "failed"
               /\ result' = result
               /\ pc' = "write"
    /\ UNCHANGED <<workflow, current, i_nodes, o_nodes, calls, channel,
                   closed, released, exit_code>>
    /\ UNCHANGED <<relpath_vars, tar_vars>>

\* if (pgmoneta_create_node_string(v, name, &n)) goto error;
\* pgmoneta_append_node(&i_nodes, n);
CreateNode(at, name, next) ==
    /\ pc = at
    /\ \E ret \in {0, 1} :
          IF ret = 0
          THEN /\ i_nodes' = Append(i_nodes, name)
               /\ pc' = next
          ELSE /\ i_nodes' = i_nodes
               /\ pc' = "error"
    /\ UNCHANGED <<result, workflow, current, o_nodes, calls, channel,
                   closed, released, exit_code, restored>>
    /\ UNCHANGED <<relpath_vars, tar_vars>>

CreateNodeDirectory == CreateNode("node_directory", "directory", "node_id")
CreateNodeId == CreateNode("node_id", "id", "node_output")
CreateNodeOutput == CreateNode("node_output", "output", "workflow_create")

\* workflow = pgmoneta_workflow_create(WORKFLOW_TYPE_ARCHIVE); current = workflow;
WorkflowCreate ==
    /\ pc = "workflow_create"
    /\ \E n \in 0..MaxSteps : workflow' = [i \in 1..n |-> i]
    /\ current' = 1
    /\ pc' = "setup"
    /\ UNCHANGED <<result, i_nodes, o_nodes, calls, channel, closed,
                   released, exit_code, restored>>
    /\ UNCHANGED <<relpath_vars, tar_vars>>

\* the failing callback is invoked again instead of ending the run
OnFailureRetry(phase) == phase

\* the failing callback only ends its own loop (break instead of goto error)
OnFailureBreak(phase) ==
    CASE phase = "setup" -> "execute"
      [] phase = "execute" -> "teardown"
      [] phase = "teardown" -> "write"

\* a failing teardown is logged and the run reports as usual
OnFailureSwallowTeardown(phase) == IF phase = "teardown" THEN "write" ELSE "error"

\* what a failing callback leads to: goto error
OnFailure(phase) == "error"

\* current = current->next
NextStep(c) == c + 1

\* one iteration of a phase loop:
\*   if (current->phase(server, backup_id, i_nodes, &o_nodes)) goto error;
\*   current = current->next;
\* the callback may append an entry to the output Bus it is given
Callback(phase) ==
    /\ pc = phase
    /\ current <= Len(workflow)
    /\ \E ret \in {0, 1}, add \in BOOLEAN :
          /\ o_nodes' = IF add THEN Append(o_nodes, <<phase, workflow[current]>>)
                        ELSE o_nodes
          /\ calls' = Append(calls, [step |-> workflow[current], phase |-> phase,
                                     ret |-> ret, i_seen |-> i_nodes,
                                     o_seen |-> o_nodes, o_left |-> o_nodes'])
          /\ IF ret # 0
             THEN /\ pc' = OnFailure(phase)
                  /\ current' = current
             ELSE /\ pc' = pc
                  /\ current' = NextStep(current)
    /\ UNCHANGED <<result, workflow, i_nodes, channel, closed, released,
                   exit_code, restored>>
    /\ UNCHANGED <<relpath_vars, tar_vars>>

Setup == Callback("setup")
Execute == Callback("execute")
Teardown == Callback("teardown")

\* the teardown loop placed before the execute loop
AfterPhaseSwapped(phase) ==
    CASE phase = "setup" -> "teardown"
      [] phase = "teardown" -> "execute"
      [] phase = "execute" -> "write"

\* the phase entered when a while (current != NULL) loop ends
AfterPhase(phase) ==
    CASE phase = "setup" -> "execute"
      [] phase = "execute" -> "teardown"
      [] phase = "teardown" -> "write"

\* every phase starts with an empty output Bus
PhaseDoneFreshBus ==
    /\ pc \in Phases
    /\ current > Len(workflow)
    /\ pc' = AfterPhase(pc)
    /\ current' = 1
    /\ o_nodes' = <<>>
    /\ UNCHANGED <<result, workflow, i_nodes, calls, channel,
                   closed, released, exit_code, restored>>
    /\ UNCHANGED <<relpath_vars, tar_vars>>

\* while (current != NULL) is false: current = workflow for the next loop,
\* after the last loop the elapsed time is logged and line 142 is reached
PhaseDone ==
    /\ pc \in Phases
    /\ current > Len(workflow)
    /\ pc' = AfterPhase(pc)
    /\ current' = 1
    /\ UNCHANGED <<result, workflow, i_nodes, o_nodes, calls, channel,
                   closed, released, exit_code, restored>>
    /\ UNCHANGED <<relpath_vars, tar_vars>>

\* pgmoneta_management_write_int32(client_fd, result);
WriteResult ==
    /\ pc = "write"
    /\ channel' = Append(channel, result)
    /\ pc' = "disconnect"
    /\ UNCHANGED <<result, workflow, current, i_nodes, o_nodes, calls,
                   closed, released, exit_code, restored>>
    /\ UNCHANGED <<relpath_vars, tar_vars>>

\* pgmoneta_disconnect(client_fd);
Disconnect ==
    /\ pc = "disconnect"
    /\ closed' = TRUE
    /\ pc' = "delete"
    /\ UNCHANGED <<result, workflow, current, i_nodes, o_nodes, calls,
                   channel, released, exit_code, restored>>
    /\ UNCHANGED <<relpath_vars, tar_vars>>

\* a release call on one of the owned objects
Release(at, what, next) ==
    /\ pc = at
    /\ released' = [released EXCEPT ![what] = @ + 1]
    /\ pc' = next
    /\ UNCHANGED <<result, workflow, current, i_nodes, o_nodes, calls,
                   channel, closed, exit_code, restored>>
    /\ UNCHANGED <<relpath_vars, tar_vars>>

\* lines 147-151
DeleteWorkflow == Release("delete", "workflow", "free_i")
FreeINodes == Release("free_i", "i_nodes", "free_o")
FreeONodes == Release("free_o", "o_nodes", "exit0")

\* error: lines 164-168
ErrorDeleteWorkflow == Release("error", "workflow", "error_free_i")
\* the error label frees o_nodes twice and i_nodes never
ErrorFreeINodesWrongList == Release("error_free_i", "o_nodes", "error_free_o")
ErrorFreeINodes == Release("error_free_i", "i_nodes", "error_free_o")
ErrorFreeONodes == Release("error_free_o", "o_nodes", "exit1")

Exit(at, code) ==
    /\ pc = at
    /\ exit_code' = code
    /\ pc' = "exited"
    /\ UNCHANGED <<result, workflow, current, i_nodes, o_nodes, calls,
                   channel, closed, released, restored>>
    /\ UNCHANGED <<relpath_vars, tar_vars>>

\* exit(0);
ExitSuccess == Exit("exit0", 0)
\* exit(1);
ExitError == Exit("exit1", 1)

Next ==
    \/ RestoreBackup
    \/ CreateNodeDirectory
    \/ CreateNodeId
    \/ CreateNodeOutput
    \/ WorkflowCreate
    \/ Setup
    \/ Execute
    \/ Teardown
    \/ PhaseDone
    \/ WriteResult
    \/ Disconnect
    \/ DeleteWorkflow
    \/ FreeINodes
    \/ FreeONodes
    \/ ErrorDeleteWorkflow
    \/ ErrorFreeINodes
    \/ ErrorFreeONodes
    \/ ExitSuccess
    \/ ExitError

Spec == Init /\ [][Next]_vars

\* ---------------------------------------------------------------- archive: properties

Exited == pc = "exited"

\* the run is on, or has finished, the path behind the error label
Failed == pc \in {"error", "error_free_i", "error_free_o", "exit1"}
          \/ (Exited /\ exit_code = 1)

\* the three Bus entries exist and pgmoneta_workflow_create has returned
Assembled ==
    /\ Len(i_nodes) = 3
    /\ pc \notin {"restore", "node_directory", "node_id", "node_output",
                  "workflow_create"}

CallsOf(phase) == {j \in 1..Len(calls) : calls[j].phase = phase}
Failures == {j \in 1..Len(calls) : calls[j].ret # 0}

\* callback `phase` of step s was invoked and returned success before position j
OkBefore(phase, s, j) ==
    \E k \in 1..(j - 1) :
        calls[k].phase = phase /\ calls[k].step = s /\ calls[k].ret = 0

\* the operation result is failure: the run ends behind the error label with
\* exit code 1 and success (status 0) is never put on the channel
ResultIsFailure ==
    /\ Failed
    /\ \A m \in 1..Len(channel) : channel[m] # 0

\* C1 (as claimed): when pgmoneta_archive has ended, whatever the outcome,
\* exactly one status code (0 or 1) has been written to the client channel and
\* the channel has been closed after it; nothing else was written.
C1_OneStatusThenClose ==
    Exited => /\ Len(channel) = 1
              /\ channel[1] \in {0, 1}
              /\ closed

\* C2: callbacks are invoked breadth-first: an execute is invoked only after
\* the setup of every step has returned success, a teardown only after the
\* execute of every step has returned success, and within one phase the steps
\* are invoked in construction order.
C2_BreadthFirst ==
    \A j \in 1..Len(calls) :
        /\ calls[j].phase = "execute" =>
              \A s \in 1..Len(workflow) : OkBefore("setup", s, j)
        /\ calls[j].phase = "teardown" =>
              \A s \in 1..Len(workflow) : OkBefore("execute", s, j)
        /\ \A k \in 1..Len(calls) :
              (calls[k].phase = calls[j].phase /\ calls[k].step < calls[j].step)
                 => k < j

C2_Witness ==
    /\ Len(workflow) >= 2
    /\ \E j \in CallsOf("teardown") : calls[j].step = 2

\* C3: when the setup of step k fails, no later callback is ever invoked (not
\* the setup of steps k+1..n, no execute, no teardown, also not for the steps
\* whose setup succeeded) and the operation result is failure.
C3_SetupFailure ==
    \A j \in CallsOf("setup") :
        calls[j].ret # 0 =>
            /\ j = Len(calls)
            /\ CallsOf("execute") = {}
            /\ CallsOf("teardown") = {}
            /\ \A s \in (calls[j].step + 1)..Len(workflow) :
                  ~ \E k \in CallsOf("setup") : calls[k].step = s
            /\ ResultIsFailure

C3_Witness ==
    /\ Exited
    /\ Len(workflow) = 3
    /\ Len(calls) = 2
    /\ calls[2].phase = "setup" /\ calls[2].step = 2 /\ calls[2].ret # 0

\* C4: when every setup succeeded and the execute of step k fails, the execute
\* of steps 1..k-1 completed before it, the execute of steps k+1..n and every
\* teardown are never invoked, and the operation result is failure.
C4_ExecuteFailure ==
    \A j \in CallsOf("execute") :
        calls[j].ret # 0 =>
            /\ \A s \in 1..(calls[j].step - 1) : OkBefore("execute", s, j)
            /\ \A k \in CallsOf("execute") : calls[k].step <= calls[j].step
            /\ \A k \in CallsOf("execute") : k <= j
            /\ CallsOf("teardown") = {}
            /\ ResultIsFailure

C4_Witness ==
    /\ Exited
    /\ Len(workflow) = 3
    /\ \E j \in CallsOf("execute") : calls[j].step = 2 /\ calls[j].ret # 0

\* C5: the first failing callback wins in every phase: after a setup, execute
\* or teardown has returned failure no callback of any phase is invoked any
\* more and the run ends Failed; a failing teardown of step k leaves the
\* teardown of steps k+1..n uninvoked and makes the operation result failure.
C5_FirstFailureWins ==
    \A j \in Failures :
        /\ j = Len(calls)
        /\ ResultIsFailure
        /\ calls[j].phase = "teardown" =>
              \A s \in (calls[j].step + 1)..Len(workflow) :
                  ~ \E k \in CallsOf("teardown") : calls[k].step = s

C5_Witness ==
    /\ Exited
    /\ Len(workflow) >= 2
    /\ \E j \in CallsOf("teardown") : calls[j].step = 1 /\ calls[j].ret # 0

\* every callback of every step was invoked exactly once and returned success
AllStepsOnceOk ==
    \A s \in 1..Len(workflow) : \A phase \in Phases :
        /\ Cardinality({j \in CallsOf(phase) : calls[j].step = s}) = 1
        /\ \A j \in CallsOf(phase) : calls[j].step = s => calls[j].ret = 0

\* C6: success (status code 0) is reported if and only if the restore
\* succeeded and, for every step of the assembled sequence, setup, execute and
\* teardown were each invoked exactly once and each returned success; status 0
\* is never on the channel while a callback is pending or has failed.
C6_SuccessIffAllOk ==
    /\ (\E m \in 1..Len(channel) : channel[m] = 0) =>
           (restored = "ok" /\ Assembled /\ AllStepsOnceOk /\ Failures = {})
    /\ Exited =>
           ((channel = <<0>> /\ exit_code = 0)
              <=> (restored = "ok" /\ Assembled /\ AllStepsOnceOk))

C6_Witness ==
    /\ Exited
    /\ channel = <<0>>
    /\ Len(workflow) = 3
    /\ Len(calls) = 9

\* C7 (as claimed): when pgmoneta_workflow_create yields no steps the archive
\* operation fails; success is not reported after running zero steps.
C7_NoStepsIsFailure ==
    (Assembled /\ workflow = <<>>) =>
        /\ \A m \in 1..Len(channel) : channel[m] # 0
        /\ Exited => exit_code = 1

\* C8: on every exit path the Step sequence, the input Bus and the output Bus
\* are each released exactly once: at exit each was released once, and none
\* is ever released twice.
C8_ReleasedExactlyOnce ==
    /\ \A what \in DOMAIN released : released[what] <= 1
    /\ Exited => \A what \in DOMAIN released : released[what] = 1

C8_Witness ==
    /\ Exited
    /\ exit_code = 1
    /\ Len(i_nodes) = 1
    /\ released = [workflow |-> 1, i_nodes |-> 1, o_nodes |-> 1]

\* ---------------------------------------------------------------- tar extraction

\* what a libarchive call returns
ARCHIVE_OK == "ARCHIVE_OK"
ArchiveCodes == {"ARCHIVE_OK", "ARCHIVE_EOF", "ARCHIVE_WARN", "ARCHIVE_FATAL"}

\* the arguments and the archives the extraction is run on
Destinations == {<<"o">>, <<"o", "/">>}
EntryPaths == {<<"a">>, <<"d", "/", "b">>}

\* pgmoneta_ends_with(str, "/")
pgmoneta_ends_with(str, c) == Len(str) > 0 /\ str[Len(str)] = c

\* snprintf(dst_file_path, ..., "%s%s" or "%s/%s", destination, entry_path)
dst_file_path(destination, entry_path) ==
    IF pgmoneta_ends_with(destination, "/")
    THEN destination \o entry_path
    ELSE destination \o <<"/">> \o entry_path

\* the headers read so far that announced an entry
HeadersRead == {j \in 1..Len(tar_log) :
                   tar_log[j].call = "next_header" /\ tar_log[j].ret = ARCHIVE_OK}

TarInit ==
    /\ ArchiveInit
    /\ RelpathIdle
    /\ tar_pc = "open"
    /\ tar_dest \in Destinations
    /\ tar_entry = <<>>
    /\ tar_log = <<>>
    /\ tar_extracted = <<>>
    /\ tar_ret = -1

\* if (archive_read_open_filename(a, file_path, 10240) != ARCHIVE_OK) goto error;
TarOpen ==
    /\ tar_pc = "open"
    /\ \E ret \in ArchiveCodes \ {"ARCHIVE_EOF"} :
          /\ tar_log' = Append(tar_log, [call |-> "open", ret |-> ret])
          /\ tar_pc' = IF ret # ARCHIVE_OK THEN "error" ELSE "next_header"
    /\ UNCHANGED <<tar_dest, tar_entry, tar_extracted, tar_ret>>
    /\ UNCHANGED <<archive_vars, relpath_vars>>

\* while (archive_read_next_header(a, &entry) == ARCHIVE_OK): an archive holds
\* at most MaxEntries entries, after them the header read cannot return OK
TarNextHeader ==
    /\ tar_pc = "next_header"
    /\ \E ret \in ArchiveCodes, entry_path \in EntryPaths :
          /\ ret = ARCHIVE_OK => Cardinality(HeadersRead) < MaxEntries
          /\ tar_log' = Append(tar_log, [call |-> "next_header", ret |-> ret])
          /\ IF ret = ARCHIVE_OK
             THEN /\ tar_entry' = entry_path
                  /\ tar_pc' = "extract"
             ELSE /\ tar_entry' = tar_entry
                  /\ tar_pc' = "return"
    /\ UNCHANGED <<tar_dest, tar_extracted, tar_ret>>
    /\ UNCHANGED <<archive_vars, relpath_vars>>

\* archive_entry_set_pathname(entry, dst_file_path);
\* if (archive_read_extract(a, entry, 0) != ARCHIVE_OK) goto error;
TarExtract ==
    /\ tar_pc = "extract"
    /\ tar_entry' = dst_file_path(tar_dest, tar_entry)
    /\ \E ret \in ArchiveCodes \ {"ARCHIVE_EOF"} :
          /\ tar_log' = Append(tar_log, [call |-> "extract", ret |-> ret])
          /\ IF ret # ARCHIVE_OK
             THEN /\ tar_pc' = "error"
                  /\ tar_extracted' = tar_extracted
             ELSE /\ tar_pc' = "next_header"
                  /\ tar_extracted' = Append(tar_extracted, tar_entry')
    /\ UNCHANGED <<tar_dest, tar_ret>>
    /\ UNCHANGED <<archive_vars, relpath_vars>>

\* archive_read_close(a); archive_read_free(a); return 0;
TarReturn ==
    /\ tar_pc = "return"
    /\ tar_ret' = 0
    /\ tar_pc' = "done"
    /\ UNCHANGED <<tar_dest, tar_entry, tar_log, tar_extracted>>
    /\ UNCHANGED <<archive_vars, relpath_vars>>

\* error: archive_read_close(a); archive_read_free(a); return 1;
TarError ==
    /\ tar_pc = "error"
    /\ tar_ret' = 1
    /\ tar_pc' = "done"
    /\ UNCHANGED <<tar_dest, tar_entry, tar_log, tar_extracted>>
    /\ UNCHANGED <<archive_vars, relpath_vars>>

TarNext ==
    \/ TarOpen
    \/ TarNextHeader
    \/ TarExtract
    \/ TarReturn
    \/ TarError

TarSpec == TarInit /\ [][TarNext]_vars

\* ---------------------------------------------------------------- tar extraction: properties

\* the libarchive calls that failed: an open or an extract that did not
\* return ARCHIVE_OK, a header read that returned neither ARCHIVE_OK nor the
\* end of the archive
TarFailures ==
    {j \in 1..Len(tar_log) :
        \/ tar_log[j].call \in {"open", "extract"} /\ tar_log[j].ret # ARCHIVE_OK
        \/ tar_log[j].call = "next_header"
              /\ tar_log[j].ret \notin {"ARCHIVE_OK", "ARCHIVE_EOF"}}

\* C16 (as claimed): pgmoneta_extract_tar_file returns failure whenever the
\* open, a header read or an extract fails, and stops at that call; it
\* returns success only when the archive was read to its end and every entry
\* that was announced was extracted.
C16_FailureSurfaced ==
    tar_pc = "done" =>
        /\ \A j \in TarFailures : j = Len(tar_log)
        /\ TarFailures # {} => tar_ret = 1
        /\ tar_ret = 0 =>
              /\ tar_log # <<>>
              /\ tar_log[Len(tar_log)] = [call |-> "next_header", ret |-> "ARCHIVE_EOF"]
              /\ Len(tar_extracted) = Cardinality(HeadersRead)

\* ---------------------------------------------------------------- relpath

MIN_PG_VERSION == 13
MAX_PG_VERSION == 17
GLOBALTABLESPACE_OID == 1664
DEFAULTTABLESPACE_OID == 1663
INVALID_BACKEND_ID == -1
MAIN_FORKNUM == 0
INIT_FORKNUM == 3
EINVAL == 22
ENOMEM == 12

\* the inputs the resolver is called with
DbOids == {0, 16384}
SpcOids == {GLOBALTABLESPACE_OID, DEFAULTTABLESPACE_OID, 16385}
RelOids == {0, 1262, 2608}
BackendIds == {INVALID_BACKEND_ID, 7}
Forks == -1..MaxForkTried
Uninitialized == {"", "?"}
Configs == {NoConfig} \cup {[present |-> TRUE, version |-> v] : v \in 12..MaxVersionTried}

Ret(v, e) == [ret |-> v, errno |-> e]

Digit(d) == <<"0", "1", "2", "3", "4", "5", "6", "7", "8", "9">>[d + 1]

RECURSIVE UToStr(_)
\* printf %u
UToStr(n) == IF n < 10 THEN Digit(n) ELSE UToStr(n \div 10) \o Digit(n % 10)

\* printf %d
IToStr(n) == IF n < 0 THEN "-" \o UToStr(0 - n) ELSE UToStr(n)

\* only the upper end of the range is tested
is_valid_fork_number_NoLowerBound(forkNumber) == forkNumber <= INIT_FORKNUM

is_valid_fork_number(forkNumber) ==
    forkNumber >= MAIN_FORKNUM /\ forkNumber <= INIT_FORKNUM

FORK_NAMES == <<"main", "fsm", "vm", "init">>

\* FORK_NAMES[forkNumber]; a fork number that is_valid_fork_number rejects
\* indexes outside the array and reads what does not belong to it
ForkName(forkNumber) ==
    IF forkNumber + 1 \in DOMAIN FORK_NAMES THEN FORK_NAMES[forkNumber + 1] ELSE "?"

\* every fork gets a suffix, MAIN included
ForkSuffixAlways(forkNumber) == "_" \o ForkName(forkNumber)

\* forkNumber != MAIN_FORKNUM ? "..._%s" : "...", with FORK_NAMES[forkNumber]
ForkSuffix(forkNumber) ==
    IF forkNumber # MAIN_FORKNUM THEN "_" \o ForkName(forkNumber) ELSE ""

\* pgmoneta_format_and_append(buf, format, ...): the formatted text appended to
\* buf (a new string when buf is NULL), NULL when memory is exhausted
FormatAndAppend(buf, text, alloc) ==
    IF ~ alloc THEN NULL
    ELSE IF buf = NULL THEN text ELSE buf \o text

\* the check rejects a global relation only when both arguments are off
GlobalArgsInvalidBoth(dbNode, backendId) ==
    dbNode # 0 /\ backendId # INVALID_BACKEND_ID

\* if (dbNode != 0 || backendId != INVALID_BACKEND_ID)
GlobalArgsInvalid(dbNode, backendId) ==
    dbNode # 0 \/ backendId # INVALID_BACKEND_ID

\* no range check and a default: an unknown version gets the newest constant
CatalogVersionDefaulted(config, e) ==
    IF ~ config.present THEN Ret(NULL, EINVAL)
    ELSE CASE config.version = 13 -> Ret("202004022", e)
           [] config.version = 14 -> Ret("202104081", e)
           [] config.version = 15 -> Ret("202204062", e)
           [] config.version = 16 -> Ret("202303311", e)
           [] OTHER -> Ret("202407111", e)

pgmoneta_wal_get_catalog_version_number(config, e) ==
    IF \/ ~ config.present
       \/ config.version < MIN_PG_VERSION
       \/ config.version > MAX_PG_VERSION
    THEN Ret(NULL, EINVAL)
    ELSE CASE config.version = 13 -> Ret("202004022", e)
           [] config.version = 14 -> Ret("202104081", e)
           [] config.version = 15 -> Ret("202204062", e)
           [] config.version = 16 -> Ret("202303311", e)
           [] config.version = 17 -> Ret("202407111", e)
           [] OTHER -> Ret(NULL, EINVAL)

\* a missing server_config is taken to be the newest supported version
VersionDirectoryDefaultsAbsent(config, uninit, alloc, e) ==
    IF ~ config.present THEN Ret("PG_17_202407111", e)
    ELSE IF ~ alloc THEN Ret(NULL, ENOMEM)
    ELSE LET catalog_version == pgmoneta_wal_get_catalog_version_number(config, e)
         IN  IF catalog_version.ret = NULL THEN catalog_version
             ELSE Ret(FormatAndAppend(uninit,
                         "PG_" \o IToStr(config.version) \o "_" \o catalog_version.ret,
                         alloc), e)

\* result = malloc(MAX_VERSION_DIR_SIZE) is not initialised before the text is
\* appended to it: uninit is what the buffer reads as at that moment
pgmoneta_wal_get_tablespace_version_directory(config, uninit, alloc, e) ==
    IF ~ config.present THEN Ret(NULL, EINVAL)
    ELSE IF ~ alloc THEN Ret(NULL, ENOMEM)
    ELSE LET catalog_version == pgmoneta_wal_get_catalog_version_number(config, e)
         IN  IF catalog_version.ret = NULL THEN catalog_version
             ELSE Ret(FormatAndAppend(uninit,
                         "PG_" \o IToStr(config.version) \o "_" \o catalog_version.ret,
                         alloc), e)

\* the separator after the backend id is left out: "t%d%u"
BackendPrefixNoSeparator(backendId) ==
    IF backendId = INVALID_BACKEND_ID THEN "" ELSE "t" \o IToStr(backendId)

\* "t%d_" before the relation when the file belongs to a backend
BackendPrefix(backendId) ==
    IF backendId = INVALID_BACKEND_ID THEN "" ELSE "t" \o IToStr(backendId) \o "_"

pgmoneta_wal_get_relation_path(dbNode, spcNode, relNode, backendId, forkNumber, config, uninit, alloc, e) ==
    IF ~ is_valid_fork_number(forkNumber) THEN Ret(NULL, EINVAL)
    ELSE IF spcNode = GLOBALTABLESPACE_OID
    THEN IF GlobalArgsInvalid(dbNode, backendId) THEN Ret(NULL, EINVAL)
         ELSE LET p == FormatAndAppend(NULL,
                          "global/" \o UToStr(relNode) \o ForkSuffix(forkNumber), alloc)
              IN  Ret(p, IF p = NULL THEN ENOMEM ELSE e)
    ELSE IF spcNode = DEFAULTTABLESPACE_OID
    THEN LET p == FormatAndAppend(NULL,
                     "base/" \o UToStr(dbNode) \o "/" \o BackendPrefix(backendId)
                        \o UToStr(relNode) \o ForkSuffix(forkNumber), alloc)
         IN  Ret(p, IF p = NULL THEN ENOMEM ELSE e)
    ELSE LET version_directory ==
                 pgmoneta_wal_get_tablespace_version_directory(config, uninit, alloc, e)
         IN  IF version_directory.ret = NULL THEN version_directory
             ELSE LET p == FormatAndAppend(NULL,
                              "pg_tblspc/" \o UToStr(spcNode) \o "/"
                                 \o version_directory.ret \o "/" \o UToStr(dbNode) \o "/"
                                 \o BackendPrefix(backendId) \o UToStr(relNode)
                                 \o ForkSuffix(forkNumber), alloc)
                  IN  Ret(p, IF p = NULL THEN ENOMEM ELSE version_directory.errno)

RelpathInit ==
    /\ ArchiveInit
    /\ TarIdle
    /\ server_config \in Configs
    /\ errno = 0
    /\ args = NoCall
    /\ path = NULL

\* a caller resolves the path of one relation fork
GetRelationPath ==
    \E dbNode \in DbOids, spcNode \in SpcOids, relNode \in RelOids,
       backendId \in BackendIds, forkNumber \in Forks,
       uninit \in Uninitialized, alloc \in BOOLEAN :
        LET r == pgmoneta_wal_get_relation_path(dbNode, spcNode, relNode, backendId,
                     forkNumber, server_config, uninit, alloc, errno)
        IN  /\ args' = [fn |-> "relation_path", dbNode |-> dbNode, spcNode |-> spcNode,
                        relNode |-> relNode, backendId |-> backendId,
                        forkNumber |-> forkNumber, uninit |-> uninit, alloc |-> alloc]
            /\ path' = r.ret
            /\ errno' = r.errno
            /\ UNCHANGED server_config
            /\ UNCHANGED <<archive_vars, tar_vars>>

\* a caller asks for the version directory of custom tablespaces
GetTablespaceVersionDirectory ==
    \E uninit \in Uninitialized, alloc \in BOOLEAN :
        LET r == pgmoneta_wal_get_tablespace_version_directory(server_config, uninit,
                     alloc, errno)
        IN  /\ args' = [fn |-> "version_directory", uninit |-> uninit, alloc |-> alloc]
            /\ path' = r.ret
            /\ errno' = r.errno
            /\ UNCHANGED server_config
            /\ UNCHANGED <<archive_vars, tar_vars>>

\* a caller asks for the catalog version number
GetCatalogVersionNumber ==
    LET r == pgmoneta_wal_get_catalog_version_number(server_config, errno)
    IN  /\ args' = [fn |-> "catalog_version"]
        /\ path' = r.ret
        /\ errno' = r.errno
        /\ UNCHANGED server_config
        /\ UNCHANGED <<archive_vars, tar_vars>>

RelpathNext ==
    \/ GetRelationPath
    \/ GetTablespaceVersionDirectory
    \/ GetCatalogVersionNumber

RelpathSpec == RelpathInit /\ [][RelpathNext]_vars

\* ---------------------------------------------------------------- relpath: properties

\* the decimal text of the relation oids the resolver is called with
RelText(relNode) ==
    CASE relNode = 0 -> "0"
      [] relNode = 1262 -> "1262"
      [] relNode = 2608 -> "2608"

\* the suffix of each valid fork
SuffixText(forkNumber) ==
    CASE forkNumber = 0 -> ""
      [] forkNumber = 1 -> "_fsm"
      [] forkNumber = 2 -> "_vm"
      [] forkNumber = 3 -> "_init"

ResolvedGlobal ==
    /\ args.fn = "relation_path"
    /\ args.spcNode = GLOBALTABLESPACE_OID

\* C9: in the global tablespace, with database_oid = 0 and backend_id = INVALID,
\* every relation_oid and every valid fork resolve (memory permitting) to
\* "global/<relation_oid>" for MAIN and to "global/<relation_oid>_<fork_name>",
\* fork_name in {fsm, vm, init}, for the other forks.
C9_GlobalPath ==
    (/\ ResolvedGlobal
     /\ args.dbNode = 0
     /\ args.backendId = INVALID_BACKEND_ID
     /\ args.forkNumber \in 0..3
     /\ args.alloc)
    => /\ path = "global/" \o RelText(args.relNode) \o SuffixText(args.forkNumber)
       /\ (args.relNode = 1262 /\ args.forkNumber = 1) => path = "global/1262_fsm"
       /\ (args.relNode = 1262 /\ args.forkNumber = 0) => path = "global/1262"

C9_Witness ==
    /\ ResolvedGlobal
    /\ args.dbNode = 0
    /\ args.backendId = INVALID_BACKEND_ID
    /\ args.relNode = 1262
    /\ args.forkNumber = 1
    /\ path = "global/1262_fsm"

\* C10: in the global tablespace resolve returns no path and sets EINVAL
\* whenever database_oid # 0 or backend_id # INVALID, for every relation_oid
\* and every fork.
C10_GlobalInvalid ==
    (/\ ResolvedGlobal
     /\ (args.dbNode # 0 \/ args.backendId # INVALID_BACKEND_ID))
    => /\ path = NULL
       /\ errno = EINVAL

C10_Witness ==
    /\ ResolvedGlobal
    /\ args.dbNode = 0
    /\ args.backendId = 7
    /\ args.forkNumber = 0
    /\ path = NULL
    /\ errno = EINVAL

\* the decimal text of the database oids the resolver is called with
DbText(dbNode) ==
    CASE dbNode = 0 -> "0"
      [] dbNode = 16384 -> "16384"

\* the prefix of a relation file that belongs to a backend
PrefixText(backendId) ==
    CASE backendId = INVALID_BACKEND_ID -> ""
      [] backendId = 7 -> "t7_"

ResolvedDefault ==
    /\ args.fn = "relation_path"
    /\ args.spcNode = DEFAULTTABLESPACE_OID

\* C11: in the default tablespace every (database_oid, relation_oid,
\* backend_id, valid fork) resolves (memory permitting) to
\* "base/<database_oid>/<P><relation_oid><S>", P empty for backend_id = INVALID
\* and "t<backend_id>_" otherwise, S empty for MAIN and "_fsm", "_vm", "_init"
\* for the other forks.
C11_DefaultPath ==
    (/\ ResolvedDefault
     /\ args.forkNumber \in 0..3
     /\ args.alloc)
    => /\ path = "base/" \o DbText(args.dbNode) \o "/" \o PrefixText(args.backendId)
                    \o RelText(args.relNode) \o SuffixText(args.forkNumber)
       /\ (/\ args.dbNode = 16384 /\ args.relNode = 2608 /\ args.forkNumber = 0
           /\ args.backendId = INVALID_BACKEND_ID) => path = "base/16384/2608"
       /\ (/\ args.dbNode = 16384 /\ args.relNode = 2608 /\ args.forkNumber = 0
           /\ args.backendId = 7) => path = "base/16384/t7_2608"

C11_Witness ==
    /\ ResolvedDefault
    /\ args.dbNode = 16384
    /\ args.relNode = 2608
    /\ args.backendId = 7
    /\ args.forkNumber = 2
    /\ path = "base/16384/t7_2608_vm"

\* the text of the supported major versions and their catalog constants
VersionText(v) ==
    CASE v = 13 -> "13" [] v = 14 -> "14" [] v = 15 -> "15"
      [] v = 16 -> "16" [] v = 17 -> "17"

CatalogText(v) ==
    CASE v = 13 -> "202004022" [] v = 14 -> "202104081" [] v = 15 -> "202204062"
      [] v = 16 -> "202303311" [] v = 17 -> "202407111"

VersionDirText(v) == "PG_" \o VersionText(v) \o "_" \o CatalogText(v)

\* the decimal text of the custom tablespace the resolver is called with
SpcText(spcNode) == CASE spcNode = 16385 -> "16385"

Called(fn) == args.fn = fn

ResolvedCustom ==
    /\ args.fn = "relation_path"
    /\ args.spcNode \notin {GLOBALTABLESPACE_OID, DEFAULTTABLESPACE_OID}

SupportedVersion ==
    /\ server_config.present
    /\ server_config.version \in 13..17

\* C12 (as claimed): for a configured major version v in 13..17 the version
\* directory is "PG_<v>_<catalog_constant(v)>" (14: PG_14_202104081, 16:
\* PG_16_202303311) and a custom tablespace resolves (memory permitting) to
\* "pg_tblspc/<tablespace_oid>/<version_directory>/<database_oid>/<relation_oid>"
\* with the backend prefix and fork suffix of the default tablespace.
C12_CustomPath ==
    /\ (Called("version_directory") /\ SupportedVersion /\ args.alloc)
          => /\ path = VersionDirText(server_config.version)
             /\ server_config.version = 14 => path = "PG_14_202104081"
             /\ server_config.version = 16 => path = "PG_16_202303311"
    /\ (ResolvedCustom /\ SupportedVersion /\ args.forkNumber \in 0..3 /\ args.alloc)
          => path = "pg_tblspc/" \o SpcText(args.spcNode) \o "/"
                       \o VersionDirText(server_config.version) \o "/"
                       \o DbText(args.dbNode) \o "/" \o PrefixText(args.backendId)
                       \o RelText(args.relNode) \o SuffixText(args.forkNumber)

UnsupportedVersion ==
    /\ server_config.present
    /\ server_config.version \notin 13..17

\* C13: for a configured major version outside 13..17 the catalog constant
\* lookup fails (NULL, errno = EINVAL), the version directory returns no
\* value with that same error, and a custom tablespace resolves to no path
\* with that same error; no partial or default version directory is used.
C13_UnsupportedVersion ==
    UnsupportedVersion =>
        /\ Called("catalog_version") => (path = NULL /\ errno = EINVAL)
        /\ (Called("version_directory") /\ args.alloc)
              => (path = NULL /\ errno = EINVAL)
        /\ (ResolvedCustom /\ args.alloc) => (path = NULL /\ errno = EINVAL)

C13_Witness ==
    /\ server_config.present
    /\ server_config.version = 18
    /\ ResolvedCustom
    /\ args.forkNumber = 0
    /\ args.alloc
    /\ path = NULL
    /\ errno = EINVAL

\* C14: a fork outside {MAIN, FSM, VM, INIT} makes resolve return no path
\* with errno = EINVAL for every tablespace kind, whatever the other
\* arguments, the configured version and the state of the memory are: the
\* fork is validated before anything else.
C14_InvalidFork ==
    (Called("relation_path") /\ args.forkNumber \notin 0..3)
    => /\ path = NULL
       /\ errno = EINVAL

C14_Witness ==
    /\ ResolvedCustom
    /\ args.forkNumber = -1
    /\ ~ args.alloc
    /\ ~ server_config.present
    /\ path = NULL
    /\ errno = EINVAL

BadConfig == ~ SupportedVersion

\* the call did not run out of memory
HasMemory == Called("catalog_version") \/ args.alloc

\* C15 (as claimed): with the configuration absent or invalid every resolver
\* entry point fails with EINVAL: resolve returns no path for any relation of
\* any tablespace kind, the version directory and the catalog constant no value.
C15_BadConfigFailsAll ==
    (BadConfig /\ ~ Called("none") /\ HasMemory)
    => /\ path = NULL
       /\ errno = EINVAL

\* C15 (amended): with the configuration absent or invalid the version
\* directory and the catalog constant return no value and resolve returns no
\* path for any relation of a custom tablespace, with errno = EINVAL unless
\* memory ran out; the global and the default tablespace do not consult the
\* configuration and a valid relation there is resolved all the same.
C15_BadConfigFailsCustom ==
    BadConfig =>
        /\ (Called("catalog_version") \/ Called("version_directory") \/ ResolvedCustom)
              => /\ path = NULL
                 /\ HasMemory => errno = EINVAL
        /\ (ResolvedDefault /\ args.forkNumber \in 0..3 /\ args.alloc)
              => path # NULL

C15_Witness ==
    /\ ~ server_config.present
    /\ ResolvedCustom
    /\ args.forkNumber = 1
    /\ args.alloc
    /\ path = NULL
    /\ errno = EINVAL

\* ---------------------------------------------------------------- archive: reporting and the Bus

\* C18 (as claimed): on every path the workflow and both Buses have been
\* released by the time the result is on the result channel.
C18_ReleasedBeforeReport ==
    channel # <<>> => \A what \in DOMAIN released : released[what] = 1

\* s is a prefix of t
IsPrefix(s, t) ==
    /\ Len(s) <= Len(t)
    /\ \A m \in 1..Len(s) : s[m] = t[m]

\* C19: every callback of every phase is handed the same input Bus and the
\* same output Bus: what a callback leaves on the output Bus (the first entry
\* of the empty Bus included) is what the next callback finds, so every entry
\* stays at its position for all later callbacks of the same and of later
\* phases, and between callbacks nothing is removed or reordered.
C19_SharedBus ==
    /\ \A j \in 1..Len(calls) :
          /\ calls[j].i_seen = <<"directory", "id", "output">>
          /\ j < Len(calls) => calls[j + 1].o_seen = calls[j].o_left
          /\ \A k \in j..Len(calls) :
                /\ IsPrefix(calls[j].o_seen, calls[k].o_seen)
                /\ k > j => IsPrefix(calls[j].o_left, calls[k].o_seen)
    /\ calls # <<>> => o_nodes = calls[Len(calls)].o_left
    /\ calls = <<>> => o_nodes = <<>>

C19_Witness ==
    /\ Len(workflow) >= 2
    /\ \E k \in CallsOf("teardown") :
          /\ calls[k].step = 2
          /\ Len(calls[k].o_seen) >= 2
          /\ calls[k].o_seen[1] = <<"setup", 1>>
          /\ calls[k].o_seen[2] = <<"execute", 2>>

\* C20: when pgmoneta_restore_backup fails no Bus entry is created, no
\* workflow is assembled and no callback of any phase is invoked; status 1 is
\* written exactly once, the channel is closed and the process exits with
\* code 0; exit code 1 occurs only after a successful restore.
C20_RestoreFailure ==
    /\ restored = "failed" =>
          /\ i_nodes = <<>>
          /\ o_nodes = <<>>
          /\ workflow = <<>>
          /\ calls = <<>>
          /\ IsPrefix(channel, <<1>>)
          /\ closed => channel = <<1>>
          /\ Exited => (channel = <<1>> /\ closed /\ exit_code = 0)
    /\ exit_code = 1 => restored = "ok"

C20_Witness ==
    /\ Exited
    /\ restored = "failed"
    /\ channel = <<1>>
    /\ closed
    /\ exit_code = 0

\* ---------------------------------------------------------------- relpath: determinism

\* two calls of resolve with the same relation identifier
SameRelation(a, b) ==
    /\ a.fn = "relation_path" /\ b.fn = "relation_path"
    /\ a.dbNode = b.dbNode
    /\ a.spcNode = b.spcNode
    /\ a.relNode = b.relNode
    /\ a.backendId = b.backendId
    /\ a.forkNumber = b.forkNumber

ResolveAgain ==
    (SameRelation(args, args') /\ args.alloc /\ args'.alloc)
    => /\ path' = path
       /\ path = NULL => errno' = errno

\* C17 (as claimed): under an unchanged configuration a call of resolve with
\* the relation identifier of an earlier call yields (memory permitting) the
\* result of that call: the same path, or no path and the same error. The
\* resolver keeps no state but errno, so the call right before stands for any
\* earlier one.
C17_Deterministic == [][ResolveAgain]_vars

====
